---- MODULE Spec2Model ----
(***************************************************************************)
(* Model of test-ai-extraction.py: call_ai_extraction, run_test and main.  *)
(*                                                                         *)
(* JSON / Python values are tagged records.  Numbers are held in           *)
(* hundredths (0.75 is 75), strings are sequences of one-character         *)
(* strings so that startswith, slicing, float() and lower() are computed.  *)
(***************************************************************************)
EXTENDS Integers, Sequences, FiniteSets, TLC

VARIABLES pc, i, cur, body, outcome, results, passed, failed,
          requests, sleeps, summary, artifact, writes

vars == <<pc, i, cur, body, outcome, results, passed, failed,
          requests, sleeps, summary, artifact, writes>>

\* Largest actual confidence drawn, in hundredths (1.00).
MaxConf == 100

-----------------------------------------------------------------------------
(* Values *)

Val(t, b, n, s) == [t |-> t, b |-> b, n |-> n, s |-> s]

\* Python None / JSON null.
NULL == Val("null", FALSE, 0, <<>>)

\* Stands for a key that a dict does not hold; never stored in one.
ABSENT == Val("absent", FALSE, 0, <<>>)

Bool(x) == Val("bool", x, 0, <<>>)

\* A number, in hundredths.
Num(x) == Val("num", FALSE, x, <<>>)

Str(cs) == Val("str", FALSE, 0, cs)

\* A JSON array of n elements.
List(n) == Val("list", FALSE, n, <<>>)

\* Literals of the test table and of the responses.
T_22_00_00 == <<"2", "2", ":", "0", "0", ":", "0", "0">>
T_21_00_00 == <<"2", "1", ":", "0", "0", ":", "0", "0">>
T_04_00_00 == <<"0", "4", ":", "0", "0", ":", "0", "0">>
D_2025_12_12 == <<"2", "0", "2", "5", "-", "1", "2", "-", "1", "2">>
D_2025_12_13 == <<"2", "0", "2", "5", "-", "1", "2", "-", "1", "3">>
D_2025_12_18 == <<"2", "0", "2", "5", "-", "1", "2", "-", "1", "8">>
D_2025_12_20 == <<"2", "0", "2", "5", "-", "1", "2", "-", "2", "0">>
D_2025_12_21 == <<"2", "0", "2", "5", "-", "1", "2", "-", "2", "1">>
D_2025_12_25 == <<"2", "0", "2", "5", "-", "1", "2", "-", "2", "5">>
D_2025_12_31 == <<"2", "0", "2", "5", "-", "1", "2", "-", "3", "1">>
SoldOut == <<"s", "o", "l", "d", "_", "o", "u", "t">>
GT_075 == <<">", "0", ".", "7", "5">>
LT_06 == <<"<", "0", ".", "6">>
LT_05 == <<"<", "0", ".", "5">>

\* The dict {}; a dict is a function from the keys it holds.
EmptyMap == [k \in {} |-> NULL]

\* What a dict holds under k, ABSENT when it does not hold k.
Field(m, k) == IF k \in DOMAIN m THEN m[k] ELSE ABSENT

-----------------------------------------------------------------------------
(* Python built-ins used by run_test *)

\* dict.get(k, d): the default only when the key is missing; a stored null
\* is returned as null.
GetOr(m, k, d) == IF k \in DOMAIN m THEN m[k] ELSE d

\* dict.get(k)
Get(m, k) == GetOr(m, k, NULL)

\* bool(v)
PyTruthy(v) ==
  CASE v.t = "null" -> FALSE
    [] v.t = "bool" -> v.b
    [] v.t = "num" -> v.n # 0
    [] v.t = "str" -> Len(v.s) > 0
    [] v.t = "list" -> v.n > 0
    [] OTHER -> FALSE

\* int and float (and bool, a subclass of int) take part in arithmetic.
IsNumber(v) == v.t \in {"num", "bool"}

NumOf(v) == IF v.t = "bool" THEN (IF v.b THEN 100 ELSE 0) ELSE v.n

\* a == b
PyEq(a, e) ==
  IF IsNumber(a) /\ IsNumber(e) THEN NumOf(a) = NumOf(e) ELSE a = e

Digits == {"0", "1", "2", "3", "4", "5", "6", "7", "8", "9"}

DigitVal(c) ==
  CASE c = "0" -> 0 [] c = "1" -> 1 [] c = "2" -> 2 [] c = "3" -> 3
    [] c = "4" -> 4 [] c = "5" -> 5 [] c = "6" -> 6 [] c = "7" -> 7
    [] c = "8" -> 8 [] c = "9" -> 9

\* Index of the first "." of cs, or Len(cs) + 1.
DotAt(cs) ==
  IF \E k \in 1..Len(cs) : cs[k] = "."
  THEN CHOOSE k \in 1..Len(cs) : cs[k] = "." /\ \A j \in 1..(k - 1) : cs[j] # "."
  ELSE Len(cs) + 1

RECURSIVE IntOf(_)
IntOf(cs) == IF cs = <<>> THEN 0
             ELSE 10 * IntOf(SubSeq(cs, 1, Len(cs) - 1)) + DigitVal(cs[Len(cs)])

\* float() accepts digits with at most one "." and at least one digit; here
\* up to two fractional digits, the precision the value is held in.
FloatOk(cs) ==
  LET d == DotAt(cs)
      ip == SubSeq(cs, 1, d - 1)
      fp == SubSeq(cs, d + 1, Len(cs))
  IN /\ \A k \in 1..Len(ip) : ip[k] \in Digits
     /\ \A k \in 1..Len(fp) : fp[k] \in Digits
     /\ Len(ip) + Len(fp) > 0
     /\ Len(fp) <= 2

\* float(cs), in hundredths.
ParseFloat(cs) ==
  LET d == DotAt(cs)
      ip == SubSeq(cs, 1, d - 1)
      fp == SubSeq(cs, d + 1, Len(cs))
  IN 100 * IntOf(ip)
     + (CASE Len(fp) = 0 -> 0
          [] Len(fp) = 1 -> 10 * IntOf(fp)
          [] OTHER -> IntOf(fp))

LowerChar(c) ==
  CASE c = "R" -> "r" [] c = "E" -> "e" [] c = "C" -> "c" [] c = "U" -> "u"
    [] c = "I" -> "i" [] c = "N" -> "n" [] c = "G" -> "g" [] c = "T" -> "t"
    [] c = "H" -> "h" [] c = "S" -> "s" [] c = "A" -> "a" [] c = "V" -> "v"
    [] OTHER -> c

\* str.lower()
Lower(cs) == [k \in 1..Len(cs) |-> LowerChar(cs[k])]

\* sub in cs
Contains(sub, cs) ==
  \E k \in 0..(Len(cs) - Len(sub)) : SubSeq(cs, k + 1, k + Len(sub)) = sub

-----------------------------------------------------------------------------
(* run_test *)

Ok == [r |-> "ok", msg |-> ""]
Issue(msg) == [r |-> "issue", msg |-> msg]
Raise(msg) == [r |-> "raise", msg |-> msg]

\* expected_value.startswith(c)
StartsWith(v, c) == Len(v.s) > 0 /\ v.s[1] = c

\* Lines 82-87 and 89-94: the threshold is parsed from expected_value[1:],
\* then "actual_value and actual_value <op> threshold" decides.
Compare(op, key, ev, actual) ==
  IF ~FloatOk(Tail(ev.s))
  THEN Raise("could not convert string to float")
  ELSE LET threshold == ParseFloat(Tail(ev.s))
       IN IF ~PyTruthy(actual) THEN Issue(key \o " validation failed")
          ELSE IF ~IsNumber(actual)
               THEN Raise("'" \o op \o "' not supported between instances")
               ELSE IF (op = ">" /\ NumOf(actual) > threshold)
                       \/ (op = "<" /\ NumOf(actual) < threshold)
                    THEN Ok
                    ELSE Issue(key \o " validation failed")

\* Lines 96-100.
ReasoningContains(ev, m) ==
  LET reasoning == GetOr(m, "reasoning", Str(<<>>))
  IN IF ev.t # "str" THEN Raise("object has no attribute 'lower'")
     ELSE IF reasoning.t # "str" THEN Raise("object has no attribute 'lower'")
     ELSE IF Contains(Lower(ev.s), Lower(reasoning.s)) THEN Ok
     ELSE Issue("Reasoning missing expected text")

\* Lines 102-106, with a truthiness test in place of ==.
ExactMut(key, ev, actual) ==
  IF (IF ev.t = "null" THEN ~PyTruthy(actual) ELSE PyEq(actual, ev))
  THEN Ok ELSE Issue(key \o " mismatch")

\* Lines 102-106.
Exact(key, ev, actual) ==
  IF PyEq(actual, ev) THEN Ok ELSE Issue(key \o " mismatch")

\* One pass of the loop body, lines 77-106.
CheckKey(key, ev, m) ==
  LET actual_value == Get(m, key)
  IN IF key = "confidence" /\ ev.t = "str"
     THEN IF StartsWith(ev, ">") THEN Compare(">", key, ev, actual_value)
          ELSE IF StartsWith(ev, "<") THEN Compare("<", key, ev, actual_value)
          ELSE Ok
     ELSE IF key = "reasoning_contains" THEN ReasoningContains(ev, m)
     ELSE Exact(key, ev, actual_value)

\* The loop of lines 76-106 from its j-th pair on; an exception leaves it.
RECURSIVE Validate(_, _, _, _)
Validate(m, expected, j, issues) ==
  IF j > Len(expected)
  THEN [raised |-> FALSE, err |-> "", issues |-> issues]
  ELSE LET c == CheckKey(expected[j][1], expected[j][2], m)
       IN IF c.r = "raise"
          THEN [raised |-> TRUE, err |-> c.msg, issues |-> issues]
          ELSE Validate(m, expected, j + 1,
                        IF c.r = "issue" THEN Append(issues, c.msg) ELSE issues)

\* Line 108, with the comparison off by one.
StatusOfMut(issues) == IF Len(issues) <= 1 THEN "PASS" ELSE "FAIL"

\* Line 108.
StatusOf(issues) == IF Len(issues) = 0 THEN "PASS" ELSE "FAIL"

NoExtraction == [isNull |-> TRUE, m |-> EmptyMap]

\* Lines 122-127, keeping what was extracted.
ErrorOutcomeMut(test_id, e, extraction) ==
  [test_id |-> test_id, status |-> "ERROR", issues |-> <<e>>,
   extraction |-> extraction]

\* Lines 122-127: the outcome for the exception e; extraction is what line 47
\* had bound before e was raised, which the outcome does not carry.
ErrorOutcome(test_id, e, extraction) ==
  [test_id |-> test_id, status |-> "ERROR", issues |-> <<e>>,
   extraction |-> NoExtraction]

\* Line 47 with None as the default.
GetExtractionMut(b) ==
  IF b.ext = "missing" THEN [t |-> "null", m |-> EmptyMap]
  ELSE [t |-> b.ext, m |-> b.m]

\* Line 47: result.get("extraction", {}).
GetExtraction(b) ==
  IF b.ext = "missing" THEN [t |-> "dict", m |-> EmptyMap]
  ELSE [t |-> b.ext, m |-> b.m]

\* run_test, lines 39-127, on the response b of call_ai_extraction.
run_test(test_id, expected, b) ==
  IF b.kind = "raise" THEN ErrorOutcome(test_id, b.err, NoExtraction)
  ELSE IF b.kind = "nonobject"
  THEN ErrorOutcome(test_id, "object has no attribute 'get'", NoExtraction)
  ELSE LET extraction == GetExtraction(b)
           kept == [isNull |-> extraction.t = "null", m |-> extraction.m]
       IN IF extraction.t # "dict"
          THEN ErrorOutcome(test_id, "object has no attribute 'get'", kept)
          ELSE LET v == Validate(extraction.m, expected, 1, <<>>)
               IN IF v.raised THEN ErrorOutcome(test_id, v.err, kept)
                  ELSE [test_id |-> test_id, status |-> StatusOf(v.issues),
                        issues |-> v.issues, extraction |-> kept]

-----------------------------------------------------------------------------
(* The test table of main, lines 131-285 *)

Case(id, expected) == [id |-> id, expected |-> expected]

tests ==
  << Case("01", << <<"isEvent", Bool(TRUE)>>, <<"isRecurring", Bool(TRUE)>>,
                   <<"eventTime", Str(T_22_00_00)>>,
                   <<"confidence", Str(GT_075)>> >>),
     Case("02", << <<"isEvent", Bool(TRUE)>>,
                   <<"eventDate", Str(D_2025_12_12)>>,
                   <<"eventEndDate", Str(D_2025_12_13)>>,
                   <<"isRecurring", Bool(FALSE)>> >>),
     Case("03", << <<"isEvent", Bool(TRUE)>>,
                   <<"eventDate", Str(D_2025_12_20)>>,
                   <<"eventTime", Str(T_22_00_00)>>,
                   <<"endTime", Str(T_04_00_00)>>,
                   <<"eventEndDate", Str(D_2025_12_21)>> >>),
     Case("04", << <<"isEvent", Bool(FALSE)>>, <<"confidence", Str(LT_06)>> >>),
     Case("05", << <<"isEvent", Bool(FALSE)>>, <<"confidence", Str(LT_05)>> >>),
     Case("06", << <<"isEvent", Bool(TRUE)>>,
                   <<"eventDate", Str(D_2025_12_18)>>,
                   <<"eventTime", Str(T_21_00_00)>> >>),
     Case("07", << <<"isEvent", Bool(TRUE)>>, <<"isFree", Bool(TRUE)>>,
                   <<"price", NULL>>, <<"eventDate", Str(D_2025_12_25)>> >>),
     Case("08", << <<"isEvent", Bool(TRUE)>>, <<"isFree", Bool(FALSE)>>,
                   <<"eventDate", Str(D_2025_12_31)>> >>),
     Case("09", << <<"isEvent", Bool(TRUE)>>,
                   <<"availabilityStatus", Str(SoldOut)>>,
                   <<"eventDate", Str(D_2025_12_20)>> >>),
     Case("10", << <<"isEvent", Bool(FALSE)>>, <<"eventDate", NULL>>,
                   <<"confidence", Str(LT_06)>> >>) >>

\* len(tests)
NumTests == Len(tests)

-----------------------------------------------------------------------------
(* Responses of the endpoint: what call_ai_extraction returns or raises *)

\* requests.post or response.json() raised.
Raised(e) == [kind |-> "raise", err |-> e, ext |-> "missing", m |-> EmptyMap]

\* A decoded body that is not a JSON object (array, string, number, null).
NonObject == [kind |-> "nonobject", err |-> "", ext |-> "missing", m |-> EmptyMap]

\* A decoded JSON object; ext says what it holds under "extraction":
\* "missing", "dict" (then m is the mapping), "null", "list", "str", "num".
Object(ext, m) == [kind |-> "object", err |-> "", ext |-> ext, m |-> m]

TransportErrors == {"ConnectionError", "ReadTimeout", "JSONDecodeError"}

NonDictExtractions == {"null", "list", "str", "num"}

High == <<"h", "i", "g", "h">>
Recurring == <<"r", "e", "c", "u", "r", "r", "i", "n", "g">>
ThisIsRecurring == <<"A", " ", "R", "E", "C", "U", "R", "R", "I", "N", "G", " ",
                     "e", "v", "e", "n", "t">>

\* Values of a confidence that are not numbers in [0,1], or are absent.
OddConfidences == {ABSENT, NULL, Str(High), Str(<<>>), List(0), List(1)}

\* The dict m with k set to v, or left without k for ABSENT.
Put(m, k, v) ==
  IF v = ABSENT THEN m
  ELSE [x \in DOMAIN m \cup {k} |-> IF x = k THEN v ELSE m[x]]

\* The field of the extraction an expected key reads.
FieldOf(key) == IF key = "reasoning_contains" THEN "reasoning" ELSE key

IsThreshold(key, ev) ==
  key = "confidence" /\ ev.t = "str" /\ (StartsWith(ev, ">") \/ StartsWith(ev, "<"))

\* Actual values tried for the field of one expected pair: the matching one,
\* mismatching ones of each type, the falsy ones, null, and the key missing.
\* A threshold is tried at and beside it, or on all of 0..MaxConf when wide.
Candidates(key, ev, wide) ==
  IF IsThreshold(key, ev) /\ FloatOk(Tail(ev.s))
  THEN LET t == ParseFloat(Tail(ev.s))
       IN OddConfidences \cup
          {Num(n) : n \in IF wide THEN 0..MaxConf
                          ELSE {0, t - 1, t, t + 1, MaxConf} \cap (0..MaxConf)}
  ELSE IF key = "reasoning_contains"
  THEN {ABSENT, NULL, Num(0), Str(<<>>), Str(Recurring), Str(ThisIsRecurring),
        Str(High)}
  ELSE {ABSENT, NULL, Bool(TRUE), Bool(FALSE), Num(0), Str(<<>>), Str(High)}
       \cup (IF ev.t \in {"str", "num"} THEN {ev} ELSE {})

\* The extraction mappings tried against an expected mapping: every
\* combination of candidates for its first j pairs, other keys missing.
RECURSIVE MapsFor(_, _, _)
MapsFor(expected, j, wide) ==
  IF j = 0 THEN {EmptyMap}
  ELSE {Put(mm, FieldOf(expected[j][1]), v) :
          mm \in MapsFor(expected, j - 1, wide),
          v \in Candidates(expected[j][1], expected[j][2], wide)}

\* Every response tried against an expected mapping.
Responses(expected) ==
  {Raised(e) : e \in TransportErrors}
  \cup {NonObject, Object("missing", EmptyMap)}
  \cup {Object(x, EmptyMap) : x \in NonDictExtractions}
  \cup {Object("dict", mm) : mm \in MapsFor(expected, Len(expected), Len(expected) = 1)}

\* An extraction that meets every expectation of the mapping.
RECURSIVE Matching(_, _)
Matching(expected, j) ==
  IF j = 0 THEN EmptyMap
  ELSE LET key == expected[j][1]
           ev == expected[j][2]
           mm == Matching(expected, j - 1)
       IN IF IsThreshold(key, ev)
          THEN Put(mm, key,
                   Num(IF StartsWith(ev, ">") THEN ParseFloat(Tail(ev.s)) + 1
                       ELSE ParseFloat(Tail(ev.s)) - 1))
          ELSE IF ev.t = "null" THEN mm
          ELSE Put(mm, FieldOf(key), ev)

\* The responses tried in a whole run: a transport failure, an object with
\* no "extraction", and an extraction meeting the expectations.
RunResponses(expected) ==
  {Raised("ConnectionError"), Object("missing", EmptyMap),
   Object("dict", Matching(expected, Len(expected)))}

-----------------------------------------------------------------------------
(* State *)

NoBody == [kind |-> "none", err |-> "", ext |-> "missing", m |-> EmptyMap]

NoOutcome == [test_id |-> "", status |-> "NONE", issues |-> <<>>,
              extraction |-> NoExtraction]

NoSummary == [printed |-> FALSE, total |-> 0, passed |-> 0, failed |-> 0]

\* main, lines 287-296: the first test case is about to be run.
Init ==
  /\ pc = "call"
  /\ i = 1
  /\ cur = tests[1]
  /\ body = NoBody
  /\ outcome = NoOutcome
  /\ results = <<>>
  /\ passed = 0
  /\ failed = 0
  /\ requests = <<>>
  /\ sleeps = 0
  /\ summary = NoSummary
  /\ artifact = <<>>
  /\ writes = 0

\* Thresholds swept by a lone confidence expectation: 0.d, 0.dd and 1.
Thresholds ==
  {<<op, "0", ".", d1>> : op \in {">", "<"}, d1 \in Digits}
  \cup {<<op, "0", ".", d1, d2>> : op \in {">", "<"}, d1 \in Digits,
                                   d2 \in {"0", "5", "6"}}
  \cup {<<">", "1">>, <<"<", "1">>}

\* Arguments run_test is called with on its own: the ten cases of the table,
\* a lone threshold, a lone None, a literal confidence and the substring key.
RunTestInputs ==
  {tests[k] : k \in 1..NumTests}
  \cup {Case("t", << <<"confidence", Str(th)>> >>) : th \in Thresholds}
  \cup {Case("n", << <<"price", NULL>> >>),
        Case("l", << <<"confidence", Num(80)>> >>),
        Case("r", << <<"reasoning_contains", Str(Recurring)>> >>),
        Case("m", << <<"isEvent", Bool(TRUE)>>,
                     <<"reasoning_contains", Str(Recurring)>>,
                     <<"confidence", Str(GT_075)>> >>)}

\* One call of run_test with any of the arguments above.
InitRunTest ==
  /\ pc = "call"
  /\ i = 0
  /\ cur \in RunTestInputs
  /\ body = NoBody
  /\ outcome = NoOutcome
  /\ results = <<>>
  /\ passed = 0
  /\ failed = 0
  /\ requests = <<>>
  /\ sleeps = 0
  /\ summary = NoSummary
  /\ artifact = <<>>
  /\ writes = 0

-----------------------------------------------------------------------------
(* Steps *)

\* call_ai_extraction, lines 16-31, called at line 40: one POST is issued and
\* either a body is decoded or an exception is raised.
call_ai_extraction(R) ==
  /\ pc = "call"
  /\ \E b \in R : body' = b
  /\ requests' = Append(requests, cur.id)
  /\ pc' = "responded"
  /\ UNCHANGED <<i, cur, outcome, results, passed, failed, sleeps, summary,
                 artifact, writes>>

\* The request of a run_test called on its own.
CallAny == call_ai_extraction(Responses(cur.expected))

\* The request of a run_test called by main.
CallRun == call_ai_extraction(RunResponses(cur.expected))

\* The rest of run_test with the exception of a failed request escaping it.
ReturnUncaught ==
  /\ pc = "responded"
  /\ IF body.kind = "raise"
     THEN pc' = "aborted" /\ outcome' = outcome
     ELSE pc' = "returned" /\ outcome' = run_test(cur.id, cur.expected, body)
  /\ UNCHANGED <<i, cur, body, results, passed, failed, requests, sleeps,
                 summary, artifact, writes>>

\* The rest of run_test, lines 47-127; main's result is what it returns.
Return ==
  /\ pc = "responded"
  /\ outcome' = run_test(cur.id, cur.expected, body)
  /\ pc' = "returned"
  /\ UNCHANGED <<i, cur, body, results, passed, failed, requests, sleeps,
                 summary, artifact, writes>>

\* Lines 303-308 with an ERROR outcome left out of the list.
AppendResultSkipError ==
  /\ pc = "returned"
  /\ i >= 1
  /\ results' = IF outcome.status = "ERROR" THEN results
                ELSE Append(results, outcome)
  /\ IF outcome.status = "PASS"
     THEN passed' = passed + 1 /\ failed' = failed
     ELSE passed' = passed /\ failed' = failed + 1
  /\ pc' = "sleep"
  /\ UNCHANGED <<i, cur, body, outcome, requests, sleeps, summary, artifact,
                 writes>>

\* Lines 303-308.
AppendResult ==
  /\ pc = "returned"
  /\ i >= 1
  /\ results' = Append(results, outcome)
  /\ IF outcome.status = "PASS"
     THEN passed' = passed + 1 /\ failed' = failed
     ELSE passed' = passed /\ failed' = failed + 1
  /\ pc' = "sleep"
  /\ UNCHANGED <<i, cur, body, outcome, requests, sleeps, summary, artifact,
                 writes>>

\* Line 310 with the delay taken only after a case that did not error.
SleepUnlessError ==
  /\ pc = "sleep"
  /\ sleeps' = IF outcome.status = "ERROR" THEN sleeps ELSE sleeps + 1
  /\ IF i < NumTests
     THEN i' = i + 1 /\ cur' = tests[i + 1] /\ pc' = "call"
     ELSE i' = i /\ cur' = cur /\ pc' = "summary"
  /\ UNCHANGED <<body, outcome, results, passed, failed, requests, summary,
                 artifact, writes>>

\* Line 310, then the for statement of line 296 takes the next case or ends.
Sleep ==
  /\ pc = "sleep"
  /\ sleeps' = sleeps + 1
  /\ IF i < NumTests
     THEN i' = i + 1 /\ cur' = tests[i + 1] /\ pc' = "call"
     ELSE i' = i /\ cur' = cur /\ pc' = "summary"
  /\ UNCHANGED <<body, outcome, results, passed, failed, requests, summary,
                 artifact, writes>>

\* Lines 313-327.
PrintSummary ==
  /\ pc = "summary"
  /\ summary' = [printed |-> TRUE, total |-> NumTests, passed |-> passed,
                 failed |-> failed]
  /\ pc' = "save"
  /\ UNCHANGED <<i, cur, body, outcome, results, passed, failed, requests,
                 sleeps, artifact, writes>>

\* Lines 330-332.
SaveResults ==
  /\ pc = "save"
  /\ artifact' = results
  /\ writes' = writes + 1
  /\ pc' = "done"
  /\ UNCHANGED <<i, cur, body, outcome, results, passed, failed, requests,
                 sleeps, summary>>

\* A run of main.
Next == CallRun \/ Return \/ AppendResult \/ Sleep \/ PrintSummary \/ SaveResults

Spec == Init /\ [][Next]_vars

\* One thread runs main to its end: a step that can be taken is taken, a
\* request returning or failing within its timeout.
FairSpec == Spec /\ WF_vars(Next)

\* One call of run_test.
NextRunTest == CallAny \/ Return

SpecRunTest == InitRunTest /\ [][NextRunTest]_vars

-----------------------------------------------------------------------------
(* Properties *)

Range(q) == {q[k] : k \in 1..Len(q)}

\* run_test has returned for a decoded body.
Decoded == pc = "returned" /\ body.kind \in {"nonobject", "object"}

\* run_test has returned for a body holding a mapping under "extraction"
\* (or no "extraction" at all, read as the empty mapping).
Validated == /\ pc = "returned"
             /\ body.kind = "object"
             /\ body.ext \in {"dict", "missing"}
             /\ outcome.status \in {"PASS", "FAIL"}

\* The condition of one expected pair as the three modes state it: threshold
\* (a number, strictly beyond the threshold), substring (case-insensitive, a
\* missing reasoning reads as empty), equality otherwise.
Holds(key, ev, m) ==
  LET actual == Get(m, key)
      reasoning == GetOr(m, "reasoning", Str(<<>>))
  IN IF IsThreshold(key, ev)
     THEN /\ IsNumber(actual)
          /\ IF StartsWith(ev, ">") THEN NumOf(actual) > ParseFloat(Tail(ev.s))
             ELSE NumOf(actual) < ParseFloat(Tail(ev.s))
     ELSE IF key = "reasoning_contains"
     THEN reasoning.t = "str" /\ Contains(Lower(ev.s), Lower(reasoning.s))
     ELSE PyEq(actual, ev)

\* The issue recorded for an expected pair whose condition fails.
IssueFor(key, ev) ==
  IF IsThreshold(key, ev) THEN key \o " validation failed"
  ELSE IF key = "reasoning_contains" THEN "Reasoning missing expected text"
  ELSE key \o " mismatch"

\* One issue per expected pair whose index is in F, in order.
RECURSIVE IssuesAt(_, _, _)
IssuesAt(expected, j, F) ==
  IF j = 0 THEN <<>>
  ELSE LET rest == IssuesAt(expected, j - 1, F)
       IN IF j \in F
          THEN Append(rest, IssueFor(expected[j][1], expected[j][2]))
          ELSE rest

\* C1: every outcome run_test returns has status PASS exactly when its issues
\* list is empty; FAIL and ERROR outcomes carry at least one issue.
C1_PassIffNoIssues ==
  pc = "returned" =>
    /\ outcome.status \in {"PASS", "FAIL", "ERROR"}
    /\ outcome.status = "PASS" <=> outcome.issues = <<>>

\* A FAIL outcome of Test 01 with a single issue.
C1_Witness ==
  /\ pc = "returned" /\ cur.id = "01"
  /\ outcome.status = "FAIL" /\ Len(outcome.issues) = 1

\* C2: whenever call_ai_extraction returned a decoded body, the outcome is
\* PASS or FAIL and never ERROR, whatever the shape of the body.
C2_DecodedNeverError == Decoded => outcome.status \in {"PASS", "FAIL"}

\* C3: for a lone threshold expectation ">t" or "<t" and an actual confidence
\* that is a number in [0,1], null or absent, the check passes exactly when
\* the actual is a number strictly beyond t; otherwise the one issue
\* "confidence validation failed" is recorded.
C3_ThresholdStrict ==
  (/\ pc = "returned" /\ cur.id = "t"
   /\ body.kind = "object" /\ body.ext = "dict"
   /\ Field(body.m, "confidence").t \in {"num", "null", "absent"})
  => outcome.issues =
       IF Holds("confidence", cur.expected[1][2], body.m) THEN <<>>
       ELSE <<"confidence validation failed">>

\* C4: for a mapping-valued extraction the issues of the PASS/FAIL outcome
\* are exactly the issues of the expected keys whose condition fails, one
\* each, in the order of the expected mapping.
C4_EveryKeyChecked ==
  (Validated /\ body.ext = "dict")
  => outcome.issues =
       IssuesAt(cur.expected, Len(cur.expected),
                {j \in 1..Len(cur.expected) :
                   ~Holds(cur.expected[j][1], cur.expected[j][2], body.m)})

\* C5: a key expected to be None records "<key> mismatch" exactly when the
\* actual field is present and not null, be it 0, False or "".
C5_NoneIsNotFalsy ==
  Validated =>
    \A j \in 1..Len(cur.expected) :
      cur.expected[j][2] = NULL =>
        (((cur.expected[j][1] \o " mismatch") \in Range(outcome.issues))
           <=> Field(body.m, cur.expected[j][1]) \notin {ABSENT, NULL})

\* Test 07 answered with price 0: the mismatch is recorded.
C5_Witness ==
  /\ Validated /\ cur.id = "07"
  /\ Field(body.m, "price") = Num(0)
  /\ "price mismatch" \in Range(outcome.issues)

\* C6: an object without "extraction" gives, for each of the ten cases, a
\* FAIL outcome over the empty mapping with one issue per expected key whose
\* expected value is not None.
C6_MissingExtraction ==
  (/\ pc = "returned" /\ cur \in Range(tests)
   /\ body.kind = "object" /\ body.ext = "missing")
  => /\ outcome.status = "FAIL"
     /\ outcome.extraction = [isNull |-> FALSE, m |-> EmptyMap]
     /\ outcome.issues =
          IssuesAt(cur.expected, Len(cur.expected),
                   {j \in 1..Len(cur.expected) : cur.expected[j][2] # NULL})

\* Test 10 answered with an object without "extraction": two issues, none
\* for eventDate.
C6_Witness ==
  /\ pc = "returned" /\ cur.id = "10"
  /\ body.kind = "object" /\ body.ext = "missing"
  /\ outcome.issues = <<"isEvent mismatch", "confidence validation failed">>

\* C9: an ERROR outcome holds a null extraction and exactly one issue, the
\* text of the error.
C9_ErrorHasNoExtraction ==
  (pc = "returned" /\ outcome.status = "ERROR")
  => /\ outcome.extraction = NoExtraction
     /\ Len(outcome.issues) = 1
     /\ body.kind = "raise" => outcome.issues = <<body.err>>

\* An ERROR raised while validating a mapping that had been extracted.
C9_Witness ==
  /\ pc = "returned" /\ outcome.status = "ERROR"
  /\ body.kind = "object" /\ body.ext = "dict"
  /\ Field(body.m, "isEvent") # ABSENT

\* C7: when the artifact is written the results list holds one outcome per
\* test case, the k-th with the k-th case's id; the artifact is written at
\* most once and only after all outcomes were appended, and an appended
\* outcome is never changed or removed.
C7_ArtifactComplete ==
  /\ [](/\ writes <= 1
        /\ writes = 1 =>
             /\ artifact = results
             /\ Len(artifact) = NumTests
             /\ \A k \in 1..NumTests : artifact[k].test_id = tests[k].id)
  /\ [][/\ Len(results') >= Len(results)
        /\ SubSeq(results', 1, Len(results)) = results
        /\ writes' # writes => Len(results) = NumTests]_vars

\* An artifact written after a run in which all three statuses occurred.
C7_Witness ==
  /\ writes = 1
  /\ {artifact[k].status : k \in 1..Len(artifact)} = {"PASS", "FAIL", "ERROR"}

\* C8: every run ends with all test cases processed, the summary printed and
\* the artifact written, whatever the outcomes.
C8_RunCompletes ==
  <>(/\ pc = "done"
     /\ Len(results) = NumTests
     /\ summary.printed
     /\ summary.total = NumTests
     /\ summary.passed + summary.failed = NumTests
     /\ writes = 1)

\* A finished run in which no case passed and the first request failed.
C8_Witness ==
  /\ pc = "done" /\ writes = 1 /\ summary.printed
  /\ passed = 0
  /\ results[1].status = "ERROR"

\* C10: requests are issued one per test case in list order, never twice
\* for a case; when a request goes out every earlier case's outcome is in
\* the results list and one delay per earlier case has been taken.
C10_OneRequestPerCase ==
  /\ Len(requests) <= NumTests
  /\ \A k \in 1..Len(requests) : requests[k] = tests[k].id
  /\ pc = "responded" =>
       /\ Len(results) = Len(requests) - 1
       /\ sleeps = Len(requests) - 1
  /\ pc = "done" => Len(requests) = NumTests /\ sleeps = NumTests

\* The request of the second case goes out after the first case errored.
C10_Witness ==
  /\ pc = "responded" /\ Len(requests) = 2
  /\ results[1].status = "ERROR"
  /\ sleeps = 1

====
